---- MODULE Spec2Model ----
(***************************************************************************)
(* BeeRef items (beeref/items.py) and the periodic timer of the entry      *)
(* point (beeref/__main__.py).                                             *)
(*                                                                         *)
(* The items are Qt graphics items.  What Qt keeps for an item (selected   *)
(* flag, scene membership, z value, position, scale, rotation, document    *)
(* text) is modelled by what the Qt setters and getters used in items.py   *)
(* do.  Floats are modelled by integers (a z step of 0.001 is the unit).   *)
(***************************************************************************)
EXTENDS Integers, Sequences, FiniteSets, TLC

(* ---------------------------- the items ------------------------------- *)

TextItems == {"t1", "t2"}
PixmapItems == {"p1"}
Items == TextItems \cup PixmapItems

TYPE(i) == IF i \in TextItems THEN "text" ELSE "pixmap"

\* Python's None, for values that are otherwise sequences of characters
NoneV == <<"None">>
Str(s) == <<"str", s>>
\* Python truthiness of an optional string: None and '' are falsy
Truthy(v) == v /= NoneV /\ v[2] /= <<>>
\* "x or y"
Or(v, w) == IF Truthy(v) THEN v ELSE w

DefaultText == <<"T", "e", "x", "t">>

\* calls of func the model counts
MaxCalls == 3
\* largest z value the model lets an item reach
MaxZ == 3
\* longest document text the model lets the editor produce
MaxLen == 5

VARIABLES
    scene_items,        \* items whose scene() is the document's scene
    selected,           \* items whose isSelected() is true
    zValue,             \* zValue() of each item
    rubberband_active,  \* scene().rubberband_active
    edit_mode,          \* BeeTextItem.edit_mode
    edit_item,          \* scene().edit_item
    text,               \* toPlainText() of each text item
    key_event,          \* what became of the last key event
    filename,           \* BeePixmapItem.filename
    loaded,             \* what the last create_from_data call gave its caller
    common,             \* save_id, pos(), scale(), rotation(), flip() per item
    copy,               \* the item the last create_copy() returned
    timer_pending,      \* single-shot timers of timer_event not yet fired
    timer_left,         \* milliseconds until the pending timer expires
    timer_pc,           \* "func" while timer_event runs func, else "idle"
    calls,              \* calls of func so far, counted up to MaxCalls
    last_result,        \* how the last call of func ended
    loop,               \* the Qt event loop of main()
    op                  \* the operation that led to this state

vars == <<scene_items, selected, zValue, rubberband_active, edit_mode,
          edit_item, text, key_event, filename, loaded, common, copy,
          timer_pending, timer_left, timer_pc, calls, last_result, loop, op>>

itemVars == <<scene_items, selected, zValue, rubberband_active, edit_mode,
              edit_item, text, key_event, filename, loaded, common, copy>>

timerVars == <<timer_pending, timer_left, timer_pc, calls, last_result, loop>>

NoOp == [name |-> "init", item |-> "none"]

(* ------------------------ scene (host) queries ------------------------- *)

\* scene().selectedItems(): the selected items that are in the scene
selectedItems == selected \cap scene_items

has_selection == selectedItems /= {}

has_single_selection == Cardinality(selectedItems) = 1

RECURSIVE SetMax(_)
SetMax(S) ==
    IF S = {} THEN 0
    ELSE LET x == CHOOSE y \in S : TRUE
             m == SetMax(S \ {x})
         IN IF x > m THEN x ELSE m

max_z == SetMax({zValue[j] : j \in scene_items})

Z_STEP == 1

\* the z value bring_to_front() gives the item
bring_to_front == max_z + Z_STEP

(* ---------------------------- BeeItemMixin ----------------------------- *)

has_selection_outline(i) == i \in selected

mixin_has_selection_handles(i) ==
    /\ i \in selected
    /\ i \in scene_items
    /\ has_single_selection

\* has_selection_handles() of a text item without the edit mode test
BeeTextItem_has_selection_handles_noedit(i) == mixin_has_selection_handles(i)

BeeTextItem_has_selection_handles(i) ==
    mixin_has_selection_handles(i) /\ ~edit_mode[i]

has_selection_handles(i) ==
    IF TYPE(i) = "text" THEN BeeTextItem_has_selection_handles(i)
    ELSE mixin_has_selection_handles(i)

\* on_selected_change without the rubber band test
on_selected_change_fronts_norubber(i, value) ==
    /\ value
    /\ i \in scene_items
    /\ ~has_selection

\* whether on_selected_change(value) calls bring_to_front()
on_selected_change_fronts(i, value) ==
    /\ value
    /\ i \in scene_items
    /\ ~has_selection
    /\ ~rubberband_active

\* the z values after on_selected_change(value) of item i
on_selected_change(i, value) ==
    IF on_selected_change_fronts(i, value)
    THEN [zValue EXCEPT ![i] = bring_to_front]
    ELSE zValue

(* ------------------------------ actions -------------------------------- *)

\* QGraphicsScene.addItem
addItem(i) ==
    /\ i \notin scene_items
    /\ scene_items' = scene_items \cup {i}
    /\ op' = [name |-> "addItem", item |-> i]
    /\ UNCHANGED timerVars
    /\ UNCHANGED <<selected, zValue, rubberband_active, edit_mode, edit_item,
                   text, key_event, filename, loaded, common, copy>>

\* QGraphicsScene.removeItem
removeItem(i) ==
    /\ i \in scene_items
    /\ scene_items' = scene_items \ {i}
    /\ op' = [name |-> "removeItem", item |-> i]
    /\ UNCHANGED timerVars
    /\ UNCHANGED <<selected, zValue, rubberband_active, edit_mode, edit_item,
                   text, key_event, filename, loaded, common, copy>>

\* QGraphicsItem.setSelected(value): the flag flips, on_selected_change(value)
\* is told of it before the flag is stored
setSelected(i, value) ==
    /\ value /= (i \in selected)
    /\ on_selected_change_fronts(i, value) => bring_to_front <= MaxZ
    /\ zValue' = on_selected_change(i, value)
    /\ selected' = IF value THEN selected \cup {i} ELSE selected \ {i}
    /\ op' = [name |-> "setSelected", item |-> i, value |-> value]
    /\ UNCHANGED timerVars
    /\ UNCHANGED <<scene_items, rubberband_active, edit_mode, edit_item, text,
                   key_event, filename, loaded, common, copy>>

\* the view starts or ends a rubber-band selection
setRubberband(b) ==
    /\ rubberband_active /= b
    /\ rubberband_active' = b
    /\ op' = [name |-> "setRubberband", item |-> "none"]
    /\ UNCHANGED timerVars
    /\ UNCHANGED <<scene_items, selected, zValue, edit_mode, edit_item, text,
                   key_event, filename, loaded, common, copy>>

(* ----------------------------- BeeTextItem ----------------------------- *)

\* edit_mode kept once for the class instead of per item
entered_shared(i) == [t \in TextItems |-> TRUE]

\* the edit_mode flags after enter_edit_mode() of item i
entered(i) == [edit_mode EXCEPT ![i] = TRUE]

\* the edit_mode flags after exit_edit_mode() of item i
exited(i) == [edit_mode EXCEPT ![i] = FALSE]

enter_edit_mode(i) ==
    /\ edit_mode' = entered(i)
    /\ op' = [name |-> "enter_edit_mode", item |-> i]
    /\ UNCHANGED timerVars
    /\ UNCHANGED <<scene_items, selected, zValue, rubberband_active, edit_item,
                   text, key_event, filename, loaded, common, copy>>

exit_edit_mode(i) ==
    /\ edit_mode' = exited(i)
    /\ op' = [name |-> "exit_edit_mode", item |-> i]
    /\ UNCHANGED timerVars
    /\ UNCHANGED <<scene_items, selected, zValue, rubberband_active, edit_item,
                   text, key_event, filename, loaded, common, copy>>

Keys == {"Key_Enter", "Key_Return", "Key_Backspace", "Key_A"}
Modifiers == {"NoModifier", "ShiftModifier"}

\* the key test without the modifier test
is_exit_key_anymod(key, mods) == key \in {"Key_Enter", "Key_Return"}

\* the condition under which keyPressEvent ends the editing
is_exit_key(key, mods) ==
    key \in {"Key_Enter", "Key_Return"} /\ mods = "NoModifier"

\* the item's text interaction flags are TextEditorInteraction exactly while
\* edit_mode is set: both are stored together by enter/exit_edit_mode
TextEditorInteraction(i) == edit_mode[i]

\* QGraphicsTextItem.keyPressEvent, the default handler: the document text
\* after the key; a key changes the text only while the item is editable
default_keyPressEvent(i, key, mods) ==
    IF ~TextEditorInteraction(i) THEN text[i]
    ELSE CASE key \in {"Key_Enter", "Key_Return"} -> Append(text[i], "\n")
           [] key = "Key_Backspace" ->
                IF text[i] = <<>> THEN text[i]
                ELSE SubSeq(text[i], 1, Len(text[i]) - 1)
           [] key = "Key_A" ->
                Append(text[i], IF mods = "ShiftModifier" THEN "A" ELSE "a")

\* Qt hands a key event to an item through the item's scene
keyPressEvent(i, key, mods) ==
    /\ i \in scene_items
    /\ IF is_exit_key(key, mods)
       THEN /\ edit_mode' = exited(i)
            /\ edit_item' = "none"
            /\ key_event' = "accepted"
            /\ text' = text
       ELSE /\ Len(default_keyPressEvent(i, key, mods)) <= MaxLen
            /\ text' = [text EXCEPT ![i] = default_keyPressEvent(i, key, mods)]
            /\ key_event' = "default"
            /\ UNCHANGED <<edit_mode, edit_item>>
    /\ op' = [name |-> "keyPressEvent", item |-> i, key |-> key, mods |-> mods]
    /\ UNCHANGED timerVars
    /\ UNCHANGED <<scene_items, selected, zValue, rubberband_active, filename,
                   loaded, common, copy>>

\* the scene records the item whose text is being edited
setEditItem(i) ==
    /\ i \in scene_items
    /\ edit_item /= i
    /\ edit_item' = i
    /\ op' = [name |-> "setEditItem", item |-> i]
    /\ UNCHANGED timerVars
    /\ UNCHANGED <<scene_items, selected, zValue, rubberband_active, edit_mode,
                   text, key_event, filename, loaded, common, copy>>

(* ---------------------- saving and reconstruction ---------------------- *)

\* a dict without keys
EmptyDict == <<>>

\* dict.get(key), None when the key is missing
Get(d, key) == IF key \in DOMAIN d THEN d[key] ELSE NoneV

\* __init__ without the "Text" default
BeeTextItem_init_nodefault(txt) == IF txt = NoneV THEN <<>> ELSE txt[2]

\* BeeTextItem.__init__(text): the document text of the new item
BeeTextItem_init(txt) == Or(txt, Str(DefaultText))[2]

\* BeeTextItem.create_from_data(**kwargs): cls(**data) takes no keyword
\* other than text
BeeTextItem_create_from_data(kwargs) ==
    LET data == IF "data" \in DOMAIN kwargs THEN kwargs.data ELSE EmptyDict
    IN IF DOMAIN data \subseteq {"text"}
       THEN [status |-> "ok", type |-> "text",
             text |-> BeeTextItem_init(Get(data, "text"))]
       ELSE [status |-> "TypeError"]

BeeTextItem_get_extra_save_data(i) == [text |-> Str(text[i])]

\* the filename of the item handed to BeePixmapItem.create_from_data:
\* "fresh" is a BeePixmapItem(QImage()) made for the call
item_filename(it) == IF it = "fresh" THEN NoneV ELSE filename[it]

\* BeePixmapItem.create_from_data(**kwargs): kwargs.pop('item') raises
\* KeyError without an item
BeePixmapItem_create_from_data(kwargs) ==
    IF "item" \notin DOMAIN kwargs THEN [status |-> "KeyError"]
    ELSE LET data == IF "data" \in DOMAIN kwargs THEN kwargs.data
                     ELSE EmptyDict
         IN [status |-> "ok", type |-> "pixmap", item |-> kwargs.item,
             filename |-> Or(item_filename(kwargs.item),
                             Get(data, "filename"))]

BeePixmapItem_get_extra_save_data(i) == [filename |-> filename[i]]

\* the filenames after the call: the item handed in is changed in place
filename_after(res) ==
    IF res.status = "ok" /\ res.item \in PixmapItems
    THEN [filename EXCEPT ![res.item] = res.filename]
    ELSE filename

PayloadTexts == {<<>>, <<"a">>, DefaultText}
TextData == {EmptyDict} \cup {[text |-> v] : v \in {NoneV} \cup {Str(x) : x \in PayloadTexts}}
TextKwargs == {EmptyDict} \cup {[data |-> d] : d \in TextData}

Filenames == {<<>>, <<"a">>, <<"b">>}
PixmapData == {EmptyDict} \cup {[filename |-> v] : v \in {NoneV} \cup {Str(x) : x \in Filenames}}
PixmapArgs == PixmapItems \cup {"fresh"}
PixmapKwargs ==
    {EmptyDict}
        \cup {[data |-> d] : d \in PixmapData}
        \cup {[item |-> it] : it \in PixmapArgs}
        \cup {[item |-> it, data |-> d] : it \in PixmapArgs, d \in PixmapData}

text_create_from_data(kwargs) ==
    /\ loaded' = BeeTextItem_create_from_data(kwargs)
    /\ op' = [name |-> "text_create_from_data", item |-> "none",
              kwargs |-> kwargs]
    /\ UNCHANGED timerVars
    /\ UNCHANGED <<scene_items, selected, zValue, rubberband_active, edit_mode,
                   edit_item, text, key_event, filename, common, copy>>

pixmap_create_from_data(kwargs) ==
    /\ loaded' = BeePixmapItem_create_from_data(kwargs)
    /\ filename' = filename_after(BeePixmapItem_create_from_data(kwargs))
    /\ op' = [name |-> "pixmap_create_from_data", item |-> "none",
              kwargs |-> kwargs]
    /\ UNCHANGED timerVars
    /\ UNCHANGED <<scene_items, selected, zValue, rubberband_active, edit_mode,
                   edit_item, text, key_event, common, copy>>

\* the persistence layer writes item i and reads it back: what
\* get_extra_save_data() returns is the data of create_from_data, with a
\* fresh item for an image
reload(i) ==
    /\ loaded' =
          IF TYPE(i) = "text"
          THEN BeeTextItem_create_from_data(
                   [data |-> BeeTextItem_get_extra_save_data(i)])
          ELSE BeePixmapItem_create_from_data(
                   [item |-> "fresh",
                    data |-> BeePixmapItem_get_extra_save_data(i)])
    /\ op' = [name |-> "reload", item |-> i]
    /\ UNCHANGED timerVars
    /\ UNCHANGED <<scene_items, selected, zValue, rubberband_active, edit_mode,
                   edit_item, text, key_event, filename, common, copy>>

(* ------------------- common fields: update_from_data ------------------- *)

\* save_id = None
NoSaveId == 0

\* a newly made item: save_id None, and Qt's position (0, 0), scale 1,
\* rotation 0, no flip
NewItem == [save_id |-> NoSaveId, x |-> 0, y |-> 0, scale |-> 1,
            rotation |-> 0, flip |-> 1]

Fields == {"save_id", "x", "y", "z", "scale", "rotation", "flip"}

\* kwargs.get(key, default)
GetOr(kwargs, key, default) ==
    IF key \in DOMAIN kwargs THEN kwargs[key] ELSE default

\* flip(): 1 for an item that is not flipped, -1 for a flipped one
flip(i) == common[i].flip

\* the flip() of item i after do_flip()
do_flip(i) == 0 - flip(i)

\* update_from_data flipping whenever the payload says flipped
update_from_data_common_flipalways(i, kwargs) ==
    [save_id |-> GetOr(kwargs, "save_id", common[i].save_id),
     x |-> GetOr(kwargs, "x", common[i].x),
     y |-> GetOr(kwargs, "y", common[i].y),
     scale |-> GetOr(kwargs, "scale", common[i].scale),
     rotation |-> GetOr(kwargs, "rotation", common[i].rotation),
     flip |-> IF GetOr(kwargs, "flip", 1) = -1 THEN do_flip(i) ELSE flip(i)]

\* save_id, position, scale, rotation and flip of item i after
\* update_from_data(**kwargs)
update_from_data_common(i, kwargs) ==
    [save_id |-> GetOr(kwargs, "save_id", common[i].save_id),
     x |-> GetOr(kwargs, "x", common[i].x),
     y |-> GetOr(kwargs, "y", common[i].y),
     scale |-> GetOr(kwargs, "scale", common[i].scale),
     rotation |-> GetOr(kwargs, "rotation", common[i].rotation),
     flip |-> IF GetOr(kwargs, "flip", 1) /= flip(i) THEN do_flip(i)
              ELSE flip(i)]

\* zValue() of item i after update_from_data(**kwargs)
update_from_data_z(i, kwargs) == GetOr(kwargs, "z", zValue[i])

update_from_data(i, kwargs) ==
    /\ common' = [common EXCEPT ![i] = update_from_data_common(i, kwargs)]
    /\ zValue' = [zValue EXCEPT ![i] = update_from_data_z(i, kwargs)]
    /\ op' = [name |-> "update_from_data", item |-> i, kwargs |-> kwargs]
    /\ UNCHANGED timerVars
    /\ UNCHANGED <<scene_items, selected, rubberband_active, edit_mode,
                   edit_item, text, key_event, filename, loaded, copy>>

\* create_copy() of either item type: a new item with the content, position,
\* z value, scale, rotation and flip of item i, and no save_id
create_copy(i) ==
    /\ copy' = [status |-> "ok", type |-> TYPE(i),
                content |-> IF TYPE(i) = "text"
                            THEN BeeTextItem_init(Str(text[i]))
                            ELSE filename[i],
                save_id |-> NoSaveId,
                x |-> common[i].x, y |-> common[i].y, z |-> zValue[i],
                scale |-> common[i].scale, rotation |-> common[i].rotation,
                flip |-> IF flip(i) = -1 THEN -1 ELSE 1]
    /\ op' = [name |-> "create_copy", item |-> i]
    /\ UNCHANGED timerVars
    /\ UNCHANGED <<scene_items, selected, zValue, rubberband_active, edit_mode,
                   edit_item, text, key_event, filename, loaded, common>>

(* ----------------------- safe_timer and main() ------------------------- *)

\* the timeout main() gives safe_timer, in milliseconds
Timeout == 50

\* timer_event arming the next timer after the call instead of in a finally
timer_event_nofinally(outcome) ==
    IF outcome = "raised" THEN timer_pending ELSE timer_pending + 1

\* the pending timers after timer_event's call of func has ended: the finally
\* clause arms the next timer whether func returned or raised
timer_event_finally(outcome) == timer_pending + 1

\* main() calls safe_timer(50, func): the first single-shot timer is armed
safe_timer ==
    /\ loop = "not_started"
    /\ timer_pending = 0 /\ calls = 0
    /\ timer_pending' = timer_pending + 1
    /\ timer_left' = Timeout
    /\ op' = [name |-> "safe_timer", item |-> "none"]
    /\ UNCHANGED <<timer_pc, calls, last_result, loop>>
    /\ UNCHANGED itemVars

\* main() enters app.exec()
app_exec ==
    /\ loop = "not_started"
    /\ timer_pending > 0
    /\ loop' = "running"
    /\ op' = [name |-> "app_exec", item |-> "none"]
    /\ UNCHANGED <<timer_pending, timer_left, timer_pc, calls, last_result>>
    /\ UNCHANGED itemVars

\* a millisecond passes
tick ==
    /\ timer_pending > 0
    /\ timer_left > 0
    /\ timer_left' = timer_left - 1
    /\ op' = [name |-> "tick", item |-> "none"]
    /\ UNCHANGED <<timer_pending, timer_pc, calls, last_result, loop>>
    /\ UNCHANGED itemVars

\* the event loop fires an expired timer: timer_event starts and calls func
timer_event_call ==
    /\ loop = "running"
    /\ timer_pc = "idle"
    /\ timer_pending > 0
    /\ timer_left = 0
    /\ timer_pending' = timer_pending - 1
    /\ timer_pc' = "func"
    /\ calls' = IF calls < MaxCalls THEN calls + 1 ELSE calls
    /\ op' = [name |-> "timer_event_call", item |-> "none"]
    /\ UNCHANGED <<timer_left, last_result, loop>>
    /\ UNCHANGED itemVars

\* func returns or raises; the finally clause runs, and an exception goes on
\* to sys.excepthook, handle_uncaught_exception, which quits the application
timer_event_end(outcome) ==
    /\ timer_pc = "func"
    /\ timer_pending' = timer_event_finally(outcome)
    /\ timer_left' = IF timer_event_finally(outcome) > timer_pending
                     THEN Timeout ELSE timer_left
    /\ timer_pc' = "idle"
    /\ last_result' = outcome
    /\ loop' = IF outcome = "raised" THEN "quit" ELSE loop
    /\ op' = [name |-> "timer_event_end", item |-> "none"]
    /\ UNCHANGED calls
    /\ UNCHANGED itemVars

\* SIGINT: handle_sigint quits the application
handle_sigint ==
    /\ loop = "running"
    /\ loop' = "quit"
    /\ op' = [name |-> "handle_sigint", item |-> "none"]
    /\ UNCHANGED <<timer_pending, timer_left, timer_pc, calls, last_result>>
    /\ UNCHANGED itemVars

(* --------------------------- specification ----------------------------- *)

Init ==
    /\ scene_items = {}
    /\ selected = {}
    /\ zValue = [i \in Items |-> 0]
    /\ rubberband_active = FALSE
    /\ edit_mode = [i \in TextItems |-> FALSE]
    /\ edit_item = "none"
    /\ text = [i \in TextItems |-> DefaultText]
    /\ key_event = "none"
    /\ filename = [i \in PixmapItems |-> NoneV]
    /\ loaded = [status |-> "none"]
    /\ common = [i \in Items |-> NewItem]
    /\ copy = [status |-> "none"]
    /\ timer_pending = 0
    /\ timer_left = 0
    /\ timer_pc = "idle"
    /\ calls = 0
    /\ last_result = "none"
    /\ loop = "not_started"
    /\ op = NoOp

Next ==
    \/ \E i \in Items : addItem(i)
    \/ \E i \in Items : removeItem(i)
    \/ \E i \in Items, value \in BOOLEAN : setSelected(i, value)
    \/ \E b \in BOOLEAN : setRubberband(b)
    \/ \E i \in TextItems : enter_edit_mode(i)
    \/ \E i \in TextItems : exit_edit_mode(i)

Spec == Init /\ [][Next]_vars

\* the keys whose default handling keeps the text short: the text-editing
\* specification adds Key_Backspace
EditKeys == Keys \ {"Key_Backspace"}

NextEdit ==
    \/ \E i \in TextItems : addItem(i)
    \/ \E i \in TextItems : removeItem(i)
    \/ \E i \in TextItems : setEditItem(i)
    \/ \E i \in TextItems : enter_edit_mode(i)
    \/ \E i \in TextItems : exit_edit_mode(i)
    \/ \E i \in TextItems, key \in EditKeys, mods \in Modifiers :
          keyPressEvent(i, key, mods)

SpecEdit == Init /\ [][NextEdit]_vars

\* one text item and one image, edited, saved and read back
SavedItems == {"t1", "p1"}
TextKeys == Keys \ {"Key_Return"}

InitText ==
    /\ scene_items = {}
    /\ selected = {}
    /\ zValue = [i \in Items |-> 0]
    /\ rubberband_active = FALSE
    /\ edit_mode = [i \in TextItems |-> FALSE]
    /\ edit_item = "none"
    /\ text = [i \in TextItems |-> DefaultText]
    /\ key_event = "none"
    /\ filename \in [PixmapItems -> {NoneV} \cup {Str(x) : x \in Filenames}]
    /\ loaded = [status |-> "none"]
    /\ common = [i \in Items |-> NewItem]
    /\ copy = [status |-> "none"]
    /\ timer_pending = 0
    /\ timer_left = 0
    /\ timer_pc = "idle"
    /\ calls = 0
    /\ last_result = "none"
    /\ loop = "not_started"
    /\ op = NoOp

NextText ==
    \/ addItem("t1")
    \/ enter_edit_mode("t1")
    \/ \E key \in TextKeys : keyPressEvent("t1", key, "NoModifier")
    \/ \E i \in SavedItems : reload(i)
    \/ \E kwargs \in TextKwargs : text_create_from_data(kwargs)
    \/ \E kwargs \in PixmapKwargs : pixmap_create_from_data(kwargs)

SpecText == InitText /\ [][NextText]_vars

\* the values a persisted payload and an item's earlier life can hold
SaveIds == {1, 2}
Xs == {0, 5}
Ys == {0, 7}
Zs == {0, 2}
Scales == {0, 1, 2}
PriorScales == {1, 2}
Rotations == {0, 90}
Flips == {1, -1}

FullPayloads ==
    [save_id : SaveIds, x : Xs, y : Ys, z : Zs, scale : Scales,
     rotation : Rotations, flip : Flips]

\* every payload: any of the fields may be missing
Payloads ==
    {[k \in D |-> r[k]] : D \in SUBSET Fields, r \in FullPayloads}

PriorStates ==
    [save_id : {NoSaveId, 1}, x : Xs, y : Ys, scale : PriorScales,
     rotation : Rotations, flip : Flips]

DataItems == {"t1", "p1"}

\* one item of either type, in any state its earlier life can have left it
InitData ==
    /\ scene_items = {}
    /\ selected = {}
    /\ rubberband_active = FALSE
    /\ edit_mode = [i \in TextItems |-> FALSE]
    /\ edit_item = "none"
    /\ text = [i \in TextItems |-> DefaultText]
    /\ key_event = "none"
    /\ filename = [i \in PixmapItems |-> NoneV]
    /\ loaded = [status |-> "none"]
    /\ copy = [status |-> "none"]
    /\ timer_pending = 0
    /\ timer_left = 0
    /\ timer_pc = "idle"
    /\ calls = 0
    /\ last_result = "none"
    /\ loop = "not_started"
    /\ \E subject \in DataItems, prior \in PriorStates, z \in Zs :
          /\ common = [i \in Items |-> IF i = subject THEN prior ELSE NewItem]
          /\ zValue = [i \in Items |-> IF i = subject THEN z ELSE 0]
          /\ op = [name |-> "init", item |-> subject]

\* the persistence layer updates the item once; copies are made at any time
NextData ==
    \/ /\ op.name = "init"
       /\ \E kwargs \in Payloads : update_from_data(op.item, kwargs)
    \/ \E i \in DataItems : create_copy(i)

SpecData == InitData /\ [][NextData]_vars

NextTimer ==
    \/ safe_timer
    \/ app_exec
    \/ tick
    \/ timer_event_call
    \/ \E outcome \in {"returned", "raised"} : timer_event_end(outcome)
    \/ handle_sigint

\* time passes, the running event loop fires an expired timer, main() goes
\* on to app.exec(), and func (lambda: None in main) ends
SpecTimer ==
    /\ Init
    /\ [][NextTimer]_vars
    /\ WF_vars(safe_timer)
    /\ WF_vars(app_exec)
    /\ WF_vars(tick)
    /\ WF_vars(timer_event_call)
    /\ WF_vars(\E outcome \in {"returned", "raised"} : timer_event_end(outcome))

(* ------------------------------- claims -------------------------------- *)

AloneSelected(i) ==
    /\ i \in selected
    /\ i \in scene_items
    /\ Cardinality(selected \cap scene_items) = 1

\* C1: has_selection_handles() of an item is true exactly when the item is
\* selected, is in a scene whose selection holds exactly one item and, for a
\* text item, is not in edit mode; so it is false with 0 or 2 or more items
\* selected and without a scene; a text item selected alone reports false
\* right after enter_edit_mode() and true right after exit_edit_mode().
C1_SelectionHandles ==
    /\ \A i \in Items :
          has_selection_handles(i) <=>
              (AloneSelected(i) /\ (i \in TextItems => ~edit_mode[i]))
    /\ \A i \in Items :
          (Cardinality(selected \cap scene_items) /= 1 \/ i \notin scene_items)
              => ~has_selection_handles(i)
    /\ op.name = "enter_edit_mode" => ~has_selection_handles(op.item)
    /\ (op.name = "exit_edit_mode" /\ AloneSelected(op.item))
          => has_selection_handles(op.item)

C1_Witness ==
    /\ op.name = "exit_edit_mode"
    /\ AloneSelected(op.item)
    /\ has_selection_handles(op.item)
    /\ \E j \in Items \ {op.item} : j \in selected /\ j \notin scene_items

\* C4: setSelected(value), through on_selected_change(value), gives the item
\* a z value above every other item of its scene exactly when value is true,
\* the item is in a scene, nothing of the scene is selected and no rubber band
\* is active; in every other case no z value changes.
C4_BringToFront ==
    [][op'.name = "setSelected" =>
          LET i == op'.item
          IN IF /\ op'.value
                /\ i \in scene_items
                /\ selected \cap scene_items = {}
                /\ ~rubberband_active
             THEN /\ \A j \in scene_items \ {i} : zValue'[i] > zValue'[j]
                  /\ \A j \in Items \ {i} : zValue'[j] = zValue[j]
             ELSE zValue' = zValue]_vars

C4_Witness ==
    /\ op.name = "setSelected"
    /\ op.value
    /\ scene_items = Items
    /\ selected \cap scene_items = {op.item}
    /\ ~rubberband_active
    /\ \A j \in Items \ {op.item} : 0 < zValue[j] /\ zValue[j] < zValue[op.item]

Editing == {t \in TextItems : edit_mode[t]}

\* C2: a text item starts not editing; enter_edit_mode() makes it editing;
\* exit_edit_mode() and an Enter/Return key press without modifier make it
\* not editing, the key press also clearing the scene's edit_item and being
\* accepted; any other key press goes to the default handler and leaves the
\* edit mode as it was; nothing else changes an item's edit mode.
C2_EditModeMachine ==
    /\ \A t \in TextItems : ~edit_mode[t]
    /\ [][/\ op'.name = "enter_edit_mode" => edit_mode'[op'.item]
          /\ op'.name = "exit_edit_mode" => ~edit_mode'[op'.item]
          /\ op'.name = "keyPressEvent" =>
                IF op'.key \in {"Key_Enter", "Key_Return"}
                      /\ op'.mods = "NoModifier"
                THEN /\ ~edit_mode'[op'.item]
                     /\ edit_item' = "none"
                     /\ key_event' = "accepted"
                ELSE /\ edit_mode'[op'.item] = edit_mode[op'.item]
                     /\ edit_item' = edit_item
                     /\ key_event' = "default"
          /\ \A t \in TextItems :
                edit_mode'[t] /= edit_mode[t] =>
                    /\ op'.item = t
                    /\ \/ op'.name \in {"enter_edit_mode", "exit_edit_mode"}
                       \/ /\ op'.name = "keyPressEvent"
                          /\ op'.key \in {"Key_Enter", "Key_Return"}
                          /\ op'.mods = "NoModifier"]_vars

C2_Witness ==
    /\ op.name = "keyPressEvent"
    /\ op.key = "Key_Return"
    /\ op.mods = "ShiftModifier"
    /\ edit_mode[op.item]
    /\ edit_item = op.item
    /\ key_event = "default"
    /\ text[op.item] = Append(DefaultText, "\n")

\* C5 as stated: exactly one item is in edit mode at any time.
C5_ExactlyOneEditing == Cardinality(Editing) = 1

\* C5, amended: no item is in edit mode at first; enter_edit_mode(),
\* exit_edit_mode() and a key press change the edit mode of the item they are
\* called on only, so an enter_edit_mode() made while another item is in edit
\* mode leaves both in edit mode; over every other step the number of items
\* in edit mode stays at most one.
C5_EditModeFrame ==
    /\ Editing = {}
    /\ [][/\ \A t \in TextItems : edit_mode'[t] /= edit_mode[t] => op'.item = t
          /\ op'.name = "enter_edit_mode" =>
                {t \in TextItems : edit_mode'[t]} = Editing \cup {op'.item}
          /\ (/\ Cardinality(Editing) <= 1
              /\ ~(/\ op'.name = "enter_edit_mode"
                   /\ Editing \ {op'.item} /= {}))
                => Cardinality({t \in TextItems : edit_mode'[t]}) <= 1]_vars

C5_Witness ==
    /\ op.name = "enter_edit_mode"
    /\ Editing = TextItems
    /\ \E t \in TextItems \ {op.item} : text[t] /= DefaultText

\* C3: writing an item with get_extra_save_data() and reading it back with
\* create_from_data gives an item with the same content: the same text for a
\* text item, whatever the text, the same filename for an image.
C3_RoundTrip ==
    op.name = "reload" =>
        /\ loaded.status = "ok"
        /\ op.item \in TextItems => loaded.text = text[op.item]
        /\ op.item \in PixmapItems => loaded.filename = filename[op.item]

\* whether the data of a create_from_data call holds the field
HasField(kwargs, f) == "data" \in DOMAIN kwargs /\ f \in DOMAIN kwargs.data

\* a call of create_from_data whose payload lacks a field
MissingField ==
    \/ /\ op.name = "text_create_from_data"
       /\ ~HasField(op.kwargs, "text")
    \/ /\ op.name = "pixmap_create_from_data"
       /\ \/ "item" \notin DOMAIN op.kwargs
          \/ ~HasField(op.kwargs, "filename")

\* C7 as stated: create_from_data on a payload that lacks a field fails with
\* a DataError and returns no item.
C7_DataError == MissingField => loaded.status = "DataError"

\* C7, amended: a payload that lacks a field raises no DataError.  A text
\* payload without 'text' gives a text item with the text "Text"; an image
\* payload without 'filename' gives back the item handed in with the filename
\* it had (none for a fresh item, and none in place of an empty filename);
\* only an image call without 'item' fails, with a KeyError that reaches the
\* caller, and changes no item.
C7_MissingFieldDefaults ==
    [][/\ (/\ op'.name = "text_create_from_data"
           /\ ~HasField(op'.kwargs, "text"))
             => /\ loaded'.status = "ok"
                /\ loaded'.text = DefaultText
       /\ (/\ op'.name = "pixmap_create_from_data"
           /\ "item" \notin DOMAIN op'.kwargs)
             => /\ loaded'.status = "KeyError"
                /\ filename' = filename
       /\ (/\ op'.name = "pixmap_create_from_data"
           /\ "item" \in DOMAIN op'.kwargs
           /\ ~HasField(op'.kwargs, "filename"))
             => /\ loaded'.status = "ok"
                /\ loaded'.item = op'.kwargs.item
                /\ loaded'.filename =
                      IF item_filename(op'.kwargs.item) = Str(<<>>) THEN NoneV
                      ELSE item_filename(op'.kwargs.item)
                /\ \A p \in PixmapItems :
                      filename'[p] = IF p = op'.kwargs.item
                                     THEN loaded'.filename ELSE filename[p]]_vars

C7_Witness ==
    /\ op.name = "pixmap_create_from_data"
    /\ op.kwargs = [item |-> "p1", data |-> EmptyDict]
    /\ loaded.status = "ok"
    /\ loaded.filename = Str(<<"a">>)

\* C6: the scale of every item, a copy included, is above 0 in every state.
C6_ScalePositive ==
    /\ \A i \in Items : common[i].scale > 0
    /\ copy.status = "ok" => copy.scale > 0

\* the value of a common field of item i
FieldOf(i, f) == IF f = "z" THEN zValue[i] ELSE common[i][f]

\* C8: after update_from_data with every common field given, each of the
\* item's save_id, position, z value, scale, rotation and flip is the value
\* given, for an item of either type in any earlier state, and the same call
\* made again changes nothing.
C8_UpdateSetsAllFields ==
    (op.name = "update_from_data" /\ DOMAIN op.kwargs = Fields) =>
        /\ \A f \in Fields : FieldOf(op.item, f) = op.kwargs[f]
        /\ update_from_data_common(op.item, op.kwargs) = common[op.item]
        /\ update_from_data_z(op.item, op.kwargs) = zValue[op.item]

C8_Witness ==
    /\ op.name = "update_from_data"
    /\ op.item = "p1"
    /\ DOMAIN op.kwargs = Fields
    /\ op.kwargs.flip = -1
    /\ op.kwargs.scale = 2
    /\ flip("p1") = -1
    /\ common["p1"].scale = 2

\* C10: update_from_data leaves every common field that the call does not
\* give as it was.
C10_OmittedFieldsKept ==
    [][op'.name = "update_from_data" =>
          \A f \in Fields \ DOMAIN op'.kwargs :
              (IF f = "z" THEN zValue'[op'.item] ELSE common'[op'.item][f])
                  = FieldOf(op'.item, f)]_vars

\* C9: of one safe_timer call at most one timer event is pending or running
\* func at any moment; a timer is armed only by safe_timer itself or when a
\* call of func has just ended; after every call of func, raised or not, a
\* timer is pending again; and func is called again and again unless the event
\* loop stops running.
C9_SafeTimer ==
    /\ [](timer_pending + (IF timer_pc = "func" THEN 1 ELSE 0) <= 1)
    /\ []((timer_pc = "idle" /\ calls > 0) => timer_pending = 1)
    /\ [][timer_pending' > timer_pending =>
             \/ op'.name = "safe_timer"
             \/ timer_pc = "func" /\ timer_pc' = "idle"]_vars
    /\ ([]<>(timer_pc = "func") \/ <>[](loop /= "running"))

C9_Witness ==
    /\ last_result = "raised"
    /\ timer_pc = "idle"
    /\ timer_pending = 1
    /\ calls = MaxCalls
    /\ loop = "quit"

====
